---- MODULE Spec2Model ----
(***************************************************************************)
(* Model of the static-data seeding scripts of PATH-Solutions:             *)
(*   meritBadge.py               Requirement / MeritBadge and their parsers*)
(*   department-initializer.py   the Department Seeder                     *)
(*   merit-badge-initializer.py  the Merit Badge Seeder                    *)
(*                                                                         *)
(* Python values are tagged records: the field t names the Python type.    *)
(* A dict is a function from its keys, so  k in d  is  k \in DOMAIN d.     *)
(* A raised exception is the value Raise(e).                               *)
(***************************************************************************)
EXTENDS Integers, Sequences, FiniteSets

(***************************************************************************)
(* Bounds of the model.                                                    *)
(***************************************************************************)
\* requirement elements in one parsed badge document (parser specification)
MaxParseNodes == 3

(***************************************************************************)
(* Python / JSON values.                                                   *)
(***************************************************************************)
None == [t |-> "null"]

JStr(s) == [t |-> "str", v |-> s]

JList(s) == [t |-> "list", v |-> s]

JDict(f) == [t |-> "dict", v |-> f]

Raise(e) == [t |-> "raise", exc |-> e]

Raised(x) == x.t = "raise"

\* key in dictionary: membership for a dict, TypeError for None
HasKey(k, dictionary) == dictionary.t = "dict" /\ k \in DOMAIN dictionary.v

(***************************************************************************)
(* meritBadge.py                                                           *)
(***************************************************************************)
Requirement(rqmt_idnf, rqmt_desc, requirements) ==
  [t |-> "Requirement",
   rqmt_idnf |-> rqmt_idnf,
   rqmt_desc |-> rqmt_desc,
   requirements |-> requirements,
   parent_rqmt_id |-> None,
   badge_id |-> None,
   rqmt_id |-> None]

RECURSIVE convert_requirement_from_json(_)
convert_requirement_from_json(dictionary) ==
  LET \* [cls.convert_requirement_from_json(req) for req in value]
      convert_all(value) ==
        IF value.t # "list" THEN Raise("TypeError")
        ELSE LET rs == [i \in 1..Len(value.v) |->
                          convert_requirement_from_json(value.v[i])]
             IN IF \E i \in 1..Len(rs) : Raised(rs[i])
                THEN Raise("TypeError")
                ELSE JList(rs)
  IN
  IF dictionary.t # "dict" THEN Raise("TypeError")
  ELSE IF HasKey("rqmt_idnf", dictionary) /\ HasKey("rqmt_desc", dictionary)
  THEN LET requirements ==
             IF HasKey("requirements", dictionary)
                /\ dictionary.v["requirements"] # None
             THEN convert_all(dictionary.v["requirements"])
             ELSE JList(<<>>)
       IN IF Raised(requirements) THEN requirements
          ELSE Requirement(dictionary.v["rqmt_idnf"],
                           dictionary.v["rqmt_desc"],
                           requirements.v)
  ELSE None

MeritBadge(badge_name, badge_desc, eagle_badge, dpmt_name, requirements) ==
  [t |-> "MeritBadge",
   badge_id |-> None,
   badge_name |-> badge_name,
   badge_desc |-> badge_desc,
   eagle_badge |-> eagle_badge,
   dpmt_name |-> dpmt_name,
   requirements |-> requirements]

BadgeKeys == {"badge_name", "badge_desc", "eagle_badge", "dpmt_name", "requirements"}

\* the presence test of convert_merit_badge_from_json
HasBadgeKeys(dictionary) == \A k \in BadgeKeys : HasKey(k, dictionary)

\* [Requirement.convert_requirement_from_json(req)
\*    for req in dictionary.get('requirements', [])]
ConvertRootRequirements(value) ==
  IF value.t # "list" THEN Raise("TypeError")
  ELSE LET rs == [i \in 1..Len(value.v) |->
                    convert_requirement_from_json(value.v[i])]
       IN IF \E i \in 1..Len(rs) : Raised(rs[i])
          THEN Raise("TypeError")
          ELSE JList(rs)

\* convert_merit_badge_from_json reading the scalar fields with
\* dictionary.get(key) and testing only 'dpmt_name' and 'requirements'
convert_merit_badge_lenient(dictionary) ==
  LET Get(k) == IF HasKey(k, dictionary) THEN dictionary.v[k] ELSE None IN
  IF HasKey("dpmt_name", dictionary) /\ HasKey("requirements", dictionary)
  THEN LET requirements == ConvertRootRequirements(dictionary.v["requirements"])
       IN IF Raised(requirements) THEN requirements
          ELSE MeritBadge(Get("badge_name"), Get("badge_desc"), Get("eagle_badge"),
                          dictionary.v["dpmt_name"], requirements.v)
  ELSE None

convert_merit_badge_from_json(dictionary) ==
  IF HasBadgeKeys(dictionary)
  THEN LET requirements == ConvertRootRequirements(dictionary.v["requirements"])
       IN IF Raised(requirements) THEN requirements
          ELSE MeritBadge(dictionary.v["badge_name"],
                          dictionary.v["badge_desc"],
                          dictionary.v["eagle_badge"],
                          dictionary.v["dpmt_name"],
                          requirements.v)
  ELSE None

(***************************************************************************)
(* The JSON documents the scripts are run on.  An element of a             *)
(* requirements list is a dict or null; a dict may lack either required    *)
(* key, and its "requirements" entry is absent, null or a list.            *)
(***************************************************************************)
RqmtKeySets == {{"rqmt_idnf", "rqmt_desc"}, {"rqmt_idnf"}, {"rqmt_desc"}}

RqmtDict(keys, requirements) ==
  JDict([k \in keys |->
           CASE k = "rqmt_idnf" -> JStr("1a")
             [] k = "rqmt_desc" -> JStr("Do the thing")
             [] OTHER -> requirements])

\* the sequences of requirement elements holding exactly n elements in all,
\* nested to any depth.  With rich, an element may also be null, lack
\* rqmt_idnf, or have a null or empty "requirements"; without it an element
\* is a complete dict or a childless dict without rqmt_desc.
RECURSIVE JsonForests(_, _)
JsonForests(n, rich) ==
  LET KeySets == IF rich THEN RqmtKeySets
                 ELSE {{"rqmt_idnf", "rqmt_desc"}, {"rqmt_idnf"}}
      Leaves ==
        {RqmtDict(ks, None) : ks \in KeySets}
        \cup (IF rich
              THEN {None}
                   \cup {RqmtDict(ks \cup {"requirements"}, None) : ks \in KeySets}
                   \cup {RqmtDict(ks \cup {"requirements"}, JList(<<>>)) :
                           ks \in KeySets}
              ELSE {})
      Elems(k) ==
        IF k = 1 THEN Leaves
        ELSE {RqmtDict(ks \cup {"requirements"}, JList(f)) :
                ks \in IF rich THEN KeySets ELSE {{"rqmt_idnf", "rqmt_desc"}},
                f \in JsonForests(k - 1, rich)}
  IN IF n = 0 THEN {<<>>}
     ELSE UNION {{<<e>> \o r : e \in Elems(k), r \in JsonForests(n - k, rich)} :
                   k \in 1..n}

JsonForestsUpTo(n, rich) == UNION {JsonForests(k, rich) : k \in 0..n}

BadgeDict(keys, badge_name, dpmt_name, requirements) ==
  JDict([k \in keys |->
           CASE k = "badge_name" -> badge_name
             [] k = "badge_desc" -> JStr("About the badge")
             [] k = "eagle_badge" -> JStr("true")
             [] k = "dpmt_name" -> dpmt_name
             [] OTHER -> requirements])

\* the badge documents of the parser specification
ParseInputs ==
  {BadgeDict(keys, JStr("Hiking"), JStr("Camping"), None) : keys \in SUBSET BadgeKeys}
  \cup {BadgeDict(keys, JStr("Hiking"), JStr("Camping"), JList(f)) :
          keys \in {BadgeKeys} \cup {BadgeKeys \ {k} : k \in BadgeKeys},
          f \in JsonForestsUpTo(MaxParseNodes, TRUE)}

(***************************************************************************)
(* department-initializer.py                                               *)
(***************************************************************************)
\* entries of the loaded departments list, and runs of the script
MaxDepts == 2
MaxRuns == 2

DeptNames == {"Camping", "Aquatics"}

\* an element of a departments file: {"dpmt_name": name}, or a record without it
DeptEntries == {JDict([k \in {"dpmt_name"} |-> JStr(n)]) : n \in DeptNames}
               \cup {JDict([k \in {} |-> None])}

RECURSIVE SeqsUpTo(_, _)
SeqsUpTo(S, n) ==
  IF n = 0 THEN {<<>>}
  ELSE SeqsUpTo(S, n - 1)
       \cup {Append(s, e) : s \in {q \in SeqsUpTo(S, n - 1) : Len(q) = n - 1}, e \in S}

\* how the backend answers insert(...).execute()
InsertResponses == {"row", "api", "exc"}

\* ErrorTag with the APIError clause lost: every failure is a general one
ErrorTagGeneralOnly(outcome) == "GENERAL ERROR"

\* the except clause an outcome lands in, as the tag of the line it prints
ErrorTag(outcome) ==
  IF outcome = "api" THEN "API ERROR" ELSE "GENERAL ERROR"

\* the table's request log after insert(new_department).execute()
\* CampDpmtInsert with an existence check before the insert
CampDpmtInsertUpsert(table, run, new_department, resp) ==
  IF \E i \in 1..Len(table) : table[i].body = new_department /\ table[i].resp = "row"
  THEN table
  ELSE Append(table, [run |-> run, body |-> new_department, resp |-> resp])

CampDpmtInsert(table, run, new_department, resp) ==
  Append(table, [run |-> run, body |-> new_department, resp |-> resp])

(***************************************************************************)
(* merit-badge-initializer.py                                              *)
(***************************************************************************)
\* badge files on disk, and badge files plus requirement elements together
MaxFiles == 2
MaxSize == 4

\* str.upper() on the department names in use
Upper(s) ==
  CASE s = "Camping" -> "CAMPING"
    [] s = "Aquatics" -> "AQUATICS"
    [] OTHER -> s

BadgeNames == <<"Hiking", "Archery", "Cooking", "Swimming">>

SeedDeptNames == {"Camping", "CAMPING", "Aquatics"}

\* the documents file i can hold with exactly k requirement elements
BadgeDocs(i, k) ==
  {BadgeDict(BadgeKeys, JStr(BadgeNames[i]), JStr(d), JList(f)) :
     d \in SeedDeptNames, f \in JsonForests(k, FALSE)}
  \cup (IF k # 0 THEN {}
        ELSE {BadgeDict(BadgeKeys, JStr(BadgeNames[i]), JStr("Camping"), None)}
             \cup {BadgeDict(BadgeKeys \ {m}, JStr(BadgeNames[i]), JStr("Camping"),
                             JList(<<>>)) : m \in BadgeKeys})

\* the file lists for positions i..MaxFiles in which the files and their
\* requirement elements number at most b together
RECURSIVE BadgeFileSeqs(_, _)
BadgeFileSeqs(i, b) ==
  IF i > MaxFiles \/ b = 0 THEN {<<>>}
  ELSE {<<>>}
       \cup UNION {{<<doc>> \o rest :
                      doc \in BadgeDocs(i, k),
                      rest \in BadgeFileSeqs(i + 1, b - 1 - k)} :
                   k \in 0..b - 1}

\* departments_with_merit_badges_out.setdefault(key, []).append(merit_badge);
\* the dict keeps insertion order, so it is a sequence of (key, badges)
SetDefaultAppend(groups, key, merit_badge) ==
  IF \E g \in 1..Len(groups) : groups[g].key = key
  THEN [g \in 1..Len(groups) |->
          IF groups[g].key = key
          THEN [groups[g] EXCEPT !.badges = Append(@, merit_badge)]
          ELSE groups[g]]
  ELSE Append(groups, [key |-> key, badges |-> <<merit_badge>>])

\* print_all_requirements: the nodes counted, and whether a None element
\* stopped the walk (requirement.rqmt_idnf raises AttributeError)
RECURSIVE PrintAllRequirements(_, _)
PrintAllRequirements(requirements, counted) ==
  IF Len(requirements) = 0 THEN [count |-> counted, raised |-> FALSE]
  ELSE LET requirement == Head(requirements) IN
       IF requirement = None THEN [count |-> counted, raised |-> TRUE]
       ELSE LET below == IF Len(requirement.requirements) > 0
                         THEN PrintAllRequirements(requirement.requirements,
                                                   counted + 1)
                         ELSE [count |-> counted + 1, raised |-> FALSE]
            IN IF below.raised THEN below
               ELSE PrintAllRequirements(Tail(requirements), below.count)

\* the requirement trees of every grouped badge, in the print loop's order
RECURSIVE PrintGroups(_, _)
PrintGroups(badges, counted) ==
  IF Len(badges) = 0 THEN [count |-> counted, raised |-> FALSE]
  ELSE LET r == PrintAllRequirements(Head(badges).requirements, counted)
       IN IF r.raised THEN r ELSE PrintGroups(Tail(badges), r.count)

\* the object at path p below a requirements list
RECURSIVE NodeAt(_, _)
NodeAt(requirements, p) ==
  IF Len(p) = 1 THEN requirements[p[1]]
  ELSE NodeAt(requirements[p[1]].requirements, Tail(p))

\* requirement.<field> = value, for the object at path p
RECURSIVE SetField(_, _, _, _)
SetField(requirements, p, field, value) ==
  [i \in 1..Len(requirements) |->
     IF i # p[1] THEN requirements[i]
     ELSE IF Len(p) = 1
          THEN [requirements[i] EXCEPT ![field] = value]
          ELSE [requirements[i] EXCEPT
                  !.requirements = SetField(@, Tail(p), field, value)]]

\* the list a frame of insert_merit_badge_requirements_recursively iterates:
\* the badge's own list for owner <<>>, else the list of the node at owner
FrameList(merit_badge, owner) ==
  IF owner = <<>> THEN merit_badge.requirements
  ELSE NodeAt(merit_badge.requirements, owner).requirements

\* return from every frame whose for loop is exhausted
RECURSIVE Unwind(_, _)
Unwind(stack, merit_badge) ==
  IF stack = <<>> THEN stack
  ELSE LET top == stack[Len(stack)] IN
       IF top.i > Len(FrameList(merit_badge, top.owner))
       THEN Unwind(SubSeq(stack, 1, Len(stack) - 1), merit_badge)
       ELSE stack

GeneratedId(tbl, n) == [t |-> "id", tbl |-> tbl, n |-> n]

\* new_merit_badge of add_merit_badges_by_dpmt
NewMeritBadge(merit_badge, dpmt_id) ==
  [badge_name |-> merit_badge.badge_name,
   badge_desc |-> merit_badge.badge_desc,
   eagle_badge |-> merit_badge.eagle_badge,
   dpmt_id |-> dpmt_id]

\* NewRequirement with parent_rqmt_id put in the row unconditionally
NewRequirementAlwaysParent(badge_id, requirement, parent_rqmt_id) ==
  [badge_id |-> badge_id,
   rqmt_desc |-> requirement.rqmt_desc,
   rqmt_idnf |-> requirement.rqmt_idnf,
   parent_rqmt_id |-> parent_rqmt_id]

\* new_requirement of insert_merit_badge_requirements_recursively
NewRequirement(badge_id, requirement, parent_rqmt_id) ==
  [k \in {"badge_id", "rqmt_desc", "rqmt_idnf"}
         \cup (IF parent_rqmt_id # None THEN {"parent_rqmt_id"} ELSE {}) |->
     CASE k = "badge_id" -> badge_id
       [] k = "rqmt_desc" -> requirement.rqmt_desc
       [] k = "rqmt_idnf" -> requirement.rqmt_idnf
       [] OTHER -> parent_rqmt_id]

\* if merit_badge:  (the grouping loop)
Truthy(merit_badge) == merit_badge # None

\* RootFrames without the  data is not None  test
RootFramesUnguarded(merit_badge, resp, merit_badge_id) ==
  IF Len(merit_badge.requirements) > 0
  THEN <<[badge_id |-> IF resp = "row" THEN merit_badge_id ELSE None,
          owner |-> <<>>, parent_rqmt_id |-> None, i |-> 1]>>
  ELSE <<>>

\* the frame add_merit_badges_by_dpmt enters after a badge insert, if any:
\* only under  data is not None  with data[0]["badge_id"] read, and the for
\* loop of the callee has work only for a non-empty list
RootFrames(merit_badge, resp, merit_badge_id) ==
  IF resp = "row" /\ Len(merit_badge.requirements) > 0
  THEN <<[badge_id |-> merit_badge_id, owner |-> <<>>,
          parent_rqmt_id |-> None, i |-> 1]>>
  ELSE <<>>

\* ChildFrames with the recursion moved out of the  data is not None  branch
ChildFramesUnguarded(badge_id, p, requirement, resp, rqmt_id) ==
  IF Len(requirement.requirements) > 0
  THEN <<[badge_id |-> badge_id, owner |-> p,
          parent_rqmt_id |-> IF resp = "row" THEN rqmt_id ELSE None, i |-> 1]>>
  ELSE <<>>

\* the frame a requirement insert recurses into, if any
ChildFrames(badge_id, p, requirement, resp, rqmt_id) ==
  IF resp = "row" /\ Len(requirement.requirements) > 0
  THEN <<[badge_id |-> badge_id, owner |-> p,
          parent_rqmt_id |-> rqmt_id, i |-> 1]>>
  ELSE <<>>

\* AttributeWrites with requirement.rqmt_id assigned before the insert returns
AttributeWritesEager(badge_id, resp, rqmt_id) ==
  <<[field |-> "badge_id", value |-> badge_id],
    [field |-> "rqmt_id", value |-> rqmt_id]>>

\* the attributes one iteration assigns on its requirement, in order
AttributeWrites(badge_id, resp, rqmt_id) ==
  <<[field |-> "badge_id", value |-> badge_id]>>
  \o (IF resp = "row" THEN <<[field |-> "rqmt_id", value |-> rqmt_id]>> ELSE <<>>)

RECURSIVE ApplyWrites(_, _, _)
ApplyWrites(requirements, p, ws) ==
  IF Len(ws) = 0 THEN requirements
  ELSE ApplyWrites(SetField(requirements, p, Head(ws).field, Head(ws).value),
                   p, Tail(ws))

\* where add_merit_badges_by_dpmt goes once badge b of department g is done
AfterBadge(grps, g, b) ==
  IF b < Len(grps[g].badges) THEN [mpc |-> "badge", gI |-> g, bI |-> b + 1]
  ELSE IF g < Len(grps) THEN [mpc |-> "lookup", gI |-> g + 1, bI |-> 1]
  ELSE [mpc |-> "done", gI |-> g, bI |-> b]

\* how the backend answers: a row with the generated id, data None, an empty
\* data list, an APIError, any other exception
RowResponses == {"row", "none", "empty", "api", "exc"}

\* select(...).maybe_single().execute(): one row, no row, APIError, other
LookupResponses == {"row", "zero", "api", "exc"}

VARIABLES
  \* parser specification: the document and what the parser returned for it
  pInput, pResult,
  \* Department Seeder: the JSON on disk, the script's list, its position,
  \* the runs started, the backend's request log, this run's stderr
  diskDepartments, departments, dpc, dI, dRun, campDpmt, dStderr,
  \* Merit Badge Seeder: the badge files, the script's position, the file
  \* index, departments_with_merit_badges_out, count, the uncaught exception
  badgeFiles, mpc, fI, groups, count, uncaught,
  \* add_merit_badges_by_dpmt: department index, dpmt_id, badge index, and
  \* the frames of insert_merit_badge_requirements_recursively
  gI, dpmt_id, bI, stack,
  \* the backend's request logs, stderr, and the attribute writes made
  lookups, meritBadgeTbl, rqmtTbl, mStderr, writes

parseVars == <<pInput, pResult>>

deptVars == <<diskDepartments, departments, dpc, dI, dRun, campDpmt, dStderr>>

seedVars == <<badgeFiles, mpc, fI, groups, count, uncaught, gI, dpmt_id, bI, stack,
              lookups, meritBadgeTbl, rqmtTbl, mStderr, writes>>

vars == <<parseVars, deptVars, seedVars>>

NotCalled == [t |-> "notcalled"]

ParseIdle ==
  /\ pInput = None
  /\ pResult = None

DeptIdle ==
  /\ diskDepartments = <<>>
  /\ departments = <<>>
  /\ dpc = "idle"
  /\ dI = 1
  /\ dRun = 0
  /\ campDpmt = <<>>
  /\ dStderr = <<>>

SeedIdle ==
  /\ badgeFiles = <<>>
  /\ mpc = "idle"
  /\ fI = 1
  /\ groups = <<>>
  /\ count = 0
  /\ uncaught = None
  /\ gI = 1
  /\ dpmt_id = None
  /\ bI = 1
  /\ stack = <<>>
  /\ lookups = <<>>
  /\ meritBadgeTbl = <<>>
  /\ rqmtTbl = <<>>
  /\ mStderr = <<>>
  /\ writes = <<>>

(***************************************************************************)
(* Parser specification: convert_merit_badge_from_json applied to a        *)
(* document.                                                               *)
(***************************************************************************)
ParseInit ==
  /\ pInput \in ParseInputs
  /\ pResult = NotCalled
  /\ DeptIdle
  /\ SeedIdle

ParseBadge ==
  /\ pResult = NotCalled
  /\ pResult' = convert_merit_badge_from_json(pInput)
  /\ UNCHANGED <<pInput, deptVars, seedVars>>

ParseNext == ParseBadge

SpecParse == ParseInit /\ [][ParseNext]_vars

(***************************************************************************)
(* Department Seeder specification: the script, run up to MaxRuns times    *)
(* on the same files against the same backend.                             *)
(***************************************************************************)
DeptInit ==
  /\ diskDepartments \in SeqsUpTo(DeptEntries, MaxDepts)
  /\ departments = <<>>
  /\ dpc = "start"
  /\ dI = 1
  /\ dRun = 0
  /\ campDpmt = <<>>
  /\ dStderr = <<>>
  /\ ParseIdle
  /\ SeedIdle

\* lines 25-33: a run starts and loads every departments file
DeptLoad ==
  /\ dpc \in {"start", "done"}
  /\ dRun < MaxRuns
  /\ dRun' = dRun + 1
  /\ departments' = diskDepartments
  /\ dI' = 1
  /\ dStderr' = <<>>
  /\ dpc' = IF Len(diskDepartments) = 0 THEN "done" ELSE "loop"
  /\ UNCHANGED <<diskDepartments, campDpmt, parseVars, seedVars>>

\* lines 35-42: one iteration of  for department in departments
DeptInsert ==
  /\ dpc = "loop"
  /\ LET department == departments[dI] IN
       IF ~HasKey("dpmt_name", department)
       THEN \* department['dpmt_name'] raises KeyError
            /\ dStderr' = Append(dStderr, ErrorTag("exc"))
            /\ UNCHANGED campDpmt
       ELSE \E resp \in InsertResponses :
              LET new_department ==
                    [dpmt_name |-> department.v["dpmt_name"]]
              IN /\ campDpmt' = CampDpmtInsert(campDpmt, dRun, new_department, resp)
                 /\ dStderr' = IF resp = "row" THEN dStderr
                               ELSE Append(dStderr, ErrorTag(resp))
  /\ dI' = dI + 1
  /\ dpc' = IF dI + 1 > Len(departments) THEN "done" ELSE "loop"
  /\ UNCHANGED <<diskDepartments, departments, dRun, parseVars, seedVars>>

DeptNext == DeptLoad \/ DeptInsert

SpecDept == DeptInit /\ [][DeptNext]_vars

(***************************************************************************)
(* Merit Badge Seeder specification.  The script parses and groups the     *)
(* badge files and prints them; its last line, the call                    *)
(*   add_merit_badges_by_dpmt(departments_with_merit_badges_out, supabase) *)
(* is commented out, so SeedCall models that call being made on the        *)
(* grouped badges, and PrintAll the script as it stands.                   *)
(***************************************************************************)
SeedInit ==
  /\ badgeFiles \in BadgeFileSeqs(1, MaxSize)
  /\ mpc = IF Len(badgeFiles) = 0 THEN "grouped" ELSE "group"
  /\ fI = 1
  /\ groups = <<>>
  /\ count = 0
  /\ uncaught = None
  /\ gI = 1
  /\ dpmt_id = None
  /\ bI = 1
  /\ stack = <<>>
  /\ lookups = <<>>
  /\ meritBadgeTbl = <<>>
  /\ rqmtTbl = <<>>
  /\ mStderr = <<>>
  /\ writes = <<>>
  /\ ParseIdle
  /\ DeptIdle

\* lines 107-112: one iteration of  for department,file in merit_badge_files
GroupFile ==
  /\ mpc = "group"
  /\ LET merit_badge == convert_merit_badge_from_json(badgeFiles[fI]) IN
       IF Raised(merit_badge)
       THEN /\ mpc' = "crashed"
            /\ uncaught' = JStr("parse")
            /\ UNCHANGED <<groups, fI>>
       ELSE /\ groups' = IF Truthy(merit_badge)
                         THEN SetDefaultAppend(groups,
                                               Upper(merit_badge.dpmt_name.v),
                                               merit_badge)
                         ELSE groups
            /\ fI' = fI + 1
            /\ mpc' = IF fI + 1 > Len(badgeFiles) THEN "grouped" ELSE "group"
            /\ UNCHANGED uncaught
  /\ UNCHANGED <<badgeFiles, count, gI, dpmt_id, bI, stack, lookups, meritBadgeTbl,
                 rqmtTbl, mStderr, writes, parseVars, deptVars>>

\* lines 119-125: the print loops over every grouped badge
PrintAll ==
  /\ mpc = "grouped"
  /\ LET all == [g \in 1..Len(groups) |-> groups[g].badges]
         RECURSIVE Concat(_)
         Concat(ss) == IF Len(ss) = 0 THEN <<>> ELSE Head(ss) \o Concat(Tail(ss))
         r == PrintGroups(Concat(all), count)
     IN /\ count' = r.count
        /\ mpc' = IF r.raised THEN "crashed" ELSE "printed"
        /\ uncaught' = IF r.raised THEN JStr("print") ELSE uncaught
  /\ UNCHANGED <<badgeFiles, fI, groups, gI, dpmt_id, bI, stack, lookups,
                 meritBadgeTbl, rqmtTbl, mStderr, writes, parseVars, deptVars>>

\* line 126: add_merit_badges_by_dpmt(departments_with_merit_badges_out, supabase)
SeedCall ==
  /\ mpc = "grouped"
  /\ mpc' = IF Len(groups) = 0 THEN "done" ELSE "lookup"
  /\ gI' = 1
  /\ UNCHANGED <<badgeFiles, fI, groups, count, uncaught, dpmt_id, bI, stack, lookups,
                 meritBadgeTbl, rqmtTbl, mStderr, writes, parseVars, deptVars>>

\* lines 30-37: resolve the department's id; nothing here is inside a try
ResolveDepartment ==
  /\ mpc = "lookup"
  /\ \E resp \in LookupResponses :
       /\ lookups' = Append(lookups, [g |-> gI, name |-> groups[gI].key, resp |-> resp])
       /\ IF resp = "row"
          THEN /\ dpmt_id' = GeneratedId("camp_dpmt", gI)
               /\ mpc' = "badge"
               /\ bI' = 1
               /\ UNCHANGED uncaught
          ELSE \* .data of None, ["dpmt_id"] of None, or the raised exception
               /\ mpc' = "crashed"
               /\ uncaught' = JStr("lookup")
               /\ UNCHANGED <<dpmt_id, bI>>
  /\ UNCHANGED <<badgeFiles, fI, groups, count, gI, stack, meritBadgeTbl, rqmtTbl,
                 mStderr, writes, parseVars, deptVars>>

\* lines 39-53: one iteration of  for merit_badge in ...[department], up to
\* the first requirement insert
InsertBadge ==
  /\ mpc = "badge"
  /\ \E resp \in RowResponses :
       LET merit_badge == groups[gI].badges[bI]
           new_merit_badge == NewMeritBadge(merit_badge, dpmt_id)
           merit_badge_id == GeneratedId("merit_badge", Len(meritBadgeTbl) + 1)
           frames == RootFrames(merit_badge, resp, merit_badge_id)
           nxt == AfterBadge(groups, gI, bI)
       IN /\ meritBadgeTbl' =
               Append(meritBadgeTbl,
                      [node |-> <<gI, bI>>, body |-> new_merit_badge, resp |-> resp,
                       id |-> IF resp = "row" THEN merit_badge_id ELSE None])
          /\ groups' = IF resp = "row"
                       THEN [groups EXCEPT ![gI].badges[bI].badge_id = merit_badge_id]
                       ELSE groups
          /\ writes' = IF resp = "row"
                       THEN Append(writes, [node |-> <<gI, bI>>, field |-> "badge_id",
                                            value |-> merit_badge_id])
                       ELSE writes
          /\ mStderr' = IF resp \in {"row", "none"} THEN mStderr
                        ELSE Append(mStderr, ErrorTag(resp))
          /\ stack' = frames
          /\ mpc' = IF frames # <<>> THEN "tree" ELSE nxt.mpc
          /\ gI' = IF frames # <<>> THEN gI ELSE nxt.gI
          /\ bI' = IF frames # <<>> THEN bI ELSE nxt.bI
  /\ UNCHANGED <<badgeFiles, fI, count, uncaught, dpmt_id, lookups, rqmtTbl,
                 parseVars, deptVars>>

\* lines 57-74: one iteration of  for requirement in requirements, in the
\* innermost frame, with the returns of the frames it exhausts
InsertRequirement ==
  /\ mpc = "tree"
  /\ LET top == stack[Len(stack)]
         merit_badge == groups[gI].badges[bI]
         p == Append(top.owner, top.i)
         requirement == NodeAt(merit_badge.requirements, p)
         stepped == [stack EXCEPT ![Len(stack)].i = @ + 1]
         nxt == AfterBadge(groups, gI, bI)
         Continue(frames) ==
           LET st == Unwind(stepped \o frames, merit_badge) IN
             /\ stack' = st
             /\ mpc' = IF st # <<>> THEN "tree" ELSE nxt.mpc
             /\ gI' = IF st # <<>> THEN gI ELSE nxt.gI
             /\ bI' = IF st # <<>> THEN bI ELSE nxt.bI
     IN IF requirement = None
        THEN \* requirement.badge_id = badge_id raises AttributeError
             /\ mStderr' = Append(mStderr, ErrorTag("exc"))
             /\ Continue(<<>>)
             /\ UNCHANGED <<groups, rqmtTbl, writes>>
        ELSE \E resp \in RowResponses :
               LET new_requirement ==
                     NewRequirement(top.badge_id, requirement, top.parent_rqmt_id)
                   rqmt_id == GeneratedId("merit_badge_rqmt", Len(rqmtTbl) + 1)
                   ws == AttributeWrites(top.badge_id, resp, rqmt_id)
               IN /\ rqmtTbl' =
                       Append(rqmtTbl,
                              [node |-> <<gI, bI>> \o p, body |-> new_requirement,
                               resp |-> resp,
                               id |-> IF resp = "row" THEN rqmt_id ELSE None])
                  /\ groups' = [groups EXCEPT ![gI].badges[bI].requirements =
                                  ApplyWrites(@, p, ws)]
                  /\ writes' = writes \o [k \in 1..Len(ws) |->
                                            [node |-> <<gI, bI>> \o p,
                                             field |-> ws[k].field,
                                             value |-> ws[k].value]]
                  /\ mStderr' = IF resp \in {"row", "none"} THEN mStderr
                                ELSE Append(mStderr, ErrorTag(resp))
                  /\ Continue(ChildFrames(top.badge_id, p, requirement, resp, rqmt_id))
  /\ UNCHANGED <<badgeFiles, fI, count, uncaught, dpmt_id, lookups, meritBadgeTbl,
                 parseVars, deptVars>>

Next ==
  \/ GroupFile
  \/ PrintAll
  \/ SeedCall
  \/ ResolveDepartment
  \/ InsertBadge
  \/ InsertRequirement

Spec == SeedInit /\ [][Next]_vars

(***************************************************************************)
(* Properties of the Merit Badge Seeder.                                   *)
(***************************************************************************)
\* the paths of every element, None or not, below a requirements list
RECURSIVE NodePaths(_)
NodePaths(requirements) ==
  UNION {{<<i>>}
         \cup (IF requirements[i] = None THEN {}
               ELSE {<<i>> \o q : q \in NodePaths(requirements[i].requirements)}) :
         i \in 1..Len(requirements)}

\* the grouped badges as (department index, badge index)
GroupedBadges ==
  UNION {{<<g, b>> : b \in 1..Len(groups[g].badges)} : g \in 1..Len(groups)}

\* an insert was issued for the requirement at full path n
Attempted(n) == \E k \in 1..Len(rqmtTbl) : rqmtTbl[k].node = n

\* an insert for the requirement at full path n returned a generated id
Succeeded(n) == \E k \in 1..Len(rqmtTbl) : rqmtTbl[k].node = n /\ rqmtTbl[k].resp = "row"

\* the requirement nodes strictly above the one at full path n
AncestorsOf(n) == {SubSeq(n, 1, m) : m \in 3..Len(n) - 1}

\* the badge insert of badge gb returned a generated id
BadgeSucceeded(gb) ==
  \E k \in 1..Len(meritBadgeTbl) :
     meritBadgeTbl[k].node = gb /\ meritBadgeTbl[k].resp = "row"

\* add_merit_badges_by_dpmt has finished the iteration of badge gb
Passed(gb) ==
  \/ mpc = "done"
  \/ /\ mpc \in {"lookup", "badge", "tree", "crashed"}
     /\ uncaught # JStr("parse")
     /\ uncaught # JStr("print")
     /\ \/ gb[1] < gI
        \/ gb[1] = gI /\ gb[2] < bI /\ mpc \in {"badge", "tree"}

\* C1: a non-root requirement row is inserted only after its parent's insert
\* returned a generated id, and carries that id as parent_rqmt_id; the row
\* of a root node has no parent_rqmt_id key.
C1_ParentBeforeChild ==
  \A k \in 1..Len(rqmtTbl) :
     LET n == rqmtTbl[k].node IN
       IF Len(n) = 3
       THEN "parent_rqmt_id" \notin DOMAIN rqmtTbl[k].body
       ELSE \E j \in 1..k - 1 :
              /\ rqmtTbl[j].node = SubSeq(n, 1, Len(n) - 1)
              /\ rqmtTbl[j].resp = "row"
              /\ "parent_rqmt_id" \in DOMAIN rqmtTbl[k].body
              /\ rqmtTbl[k].body["parent_rqmt_id"] = rqmtTbl[j].id

C1_Witness ==
  /\ \E k \in 1..Len(rqmtTbl) : Len(rqmtTbl[k].node) = 5
  /\ \E k \in 1..Len(rqmtTbl) : Len(rqmtTbl[k].node) = 3

\* C2: after a run in which every insert returned a generated id, in every
\* three-level requirement tree each in-memory non-root node's parent_rqmt_id
\* equals its parent's rqmt_id, and the persisted rows of root nodes have no
\* parent_rqmt_id.
C2_CapturedParentId ==
  (/\ mpc = "done"
   /\ \A k \in 1..Len(meritBadgeTbl) : meritBadgeTbl[k].resp = "row"
   /\ \A k \in 1..Len(rqmtTbl) : rqmtTbl[k].resp = "row")
  => \A gb \in GroupedBadges :
       LET reqs == groups[gb[1]].badges[gb[2]].requirements IN
       (\E q \in NodePaths(reqs) : Len(q) = 3) =>
       \A p \in NodePaths(reqs) :
          NodeAt(reqs, p) # None =>
            IF Len(p) = 1
            THEN \A k \in 1..Len(rqmtTbl) :
                   rqmtTbl[k].node = gb \o p =>
                     "parent_rqmt_id" \notin DOMAIN rqmtTbl[k].body
            ELSE NodeAt(reqs, p).parent_rqmt_id
                   = NodeAt(reqs, SubSeq(p, 1, Len(p) - 1)).rqmt_id

\* C3: no failure at a remote-call site (department lookup, badge insert,
\* requirement insert) escapes to abort the run.
C3_NoFailureEscapes ==
  Len(lookups) + Len(meritBadgeTbl) + Len(rqmtTbl) > 0 => mpc # "crashed"

\* C4: each requirement is attempted at most once; nothing below a node whose
\* insert did not return an id is attempted; and once a badge's walk is over,
\* every node all of whose ancestors succeeded was attempted, later siblings
\* of failed nodes and of None elements included.
C4_FailureSkipsSubtreeOnly ==
  /\ \A j, k \in 1..Len(rqmtTbl) : rqmtTbl[j].node = rqmtTbl[k].node => j = k
  /\ \A k \in 1..Len(rqmtTbl) : \A a \in AncestorsOf(rqmtTbl[k].node) : Succeeded(a)
  /\ \A gb \in GroupedBadges :
       (Passed(gb) /\ BadgeSucceeded(gb)) =>
         LET reqs == groups[gb[1]].badges[gb[2]].requirements IN
         \A p \in NodePaths(reqs) :
            (NodeAt(reqs, p) # None /\ \A a \in AncestorsOf(gb \o p) : Succeeded(a))
              => Attempted(gb \o p)

C4_Witness ==
  /\ mpc = "done"
  /\ \E gb \in GroupedBadges :
       LET reqs == groups[gb[1]].badges[gb[2]].requirements IN
         /\ Len(reqs) = 2
         /\ reqs[1] # None
         /\ Len(reqs[1].requirements) = 1
         /\ Attempted(gb \o <<1>>)
         /\ ~Succeeded(gb \o <<1>>)
         /\ ~Attempted(gb \o <<1, 1>>)
         /\ Attempted(gb \o <<2>>)

\* the files the grouping loop has gone through
FilesDone == IF mpc = "group" \/ uncaught = JStr("parse") THEN fI - 1 ELSE Len(badgeFiles)

\* the grouped badges that carry the badge_name of file i
GroupedFrom(i) ==
  {gb \in GroupedBadges : groups[gb[1]].badges[gb[2]].badge_name = JStr(BadgeNames[i])}

\* C6: a badge file missing one of the five required keys is left out of every
\* department group, no badge insert and no requirement insert is issued for
\* it, and the grouping loop goes on: every other parseable file gone through
\* is grouped exactly once, and only a raising document stops the loop.
C6_MissingKeySkipped ==
  /\ \A i \in 1..Len(badgeFiles) :
       ~(BadgeKeys \subseteq DOMAIN badgeFiles[i].v) =>
         /\ GroupedFrom(i) = {}
         /\ \A k \in 1..Len(meritBadgeTbl) :
              meritBadgeTbl[k].body.badge_name # JStr(BadgeNames[i])
         /\ \A k \in 1..Len(rqmtTbl) :
              SubSeq(rqmtTbl[k].node, 1, 2) \notin GroupedFrom(i)
  /\ \A i \in 1..FilesDone :
       (BadgeKeys \subseteq DOMAIN badgeFiles[i].v) => Cardinality(GroupedFrom(i)) = 1
  /\ uncaught = JStr("parse") => BadgeKeys \subseteq DOMAIN badgeFiles[fI].v

C6_Witness ==
  /\ Len(badgeFiles) = 2
  /\ ~(BadgeKeys \subseteq DOMAIN badgeFiles[1].v)
  /\ BadgeKeys \subseteq DOMAIN badgeFiles[2].v
  /\ mpc = "done"
  /\ Len(meritBadgeTbl) = 1
  /\ Len(rqmtTbl) > 0

\* C9: a badge whose insert yields no generated id keeps badge_id None and gets
\* no requirement insert; the next badge of the same department is processed
\* next, and every later badge of the department is inserted with the same
\* dpmt_id.
C9_NoIdNoRequirements ==
  \A k \in 1..Len(meritBadgeTbl) :
     LET gb == meritBadgeTbl[k].node IN
     meritBadgeTbl[k].resp # "row" =>
       /\ groups[gb[1]].badges[gb[2]].badge_id = None
       /\ \A j \in 1..Len(rqmtTbl) : SubSeq(rqmtTbl[j].node, 1, 2) # gb
       /\ gb[2] < Len(groups[gb[1]].badges) =>
            \/ mpc = "badge" /\ gI = gb[1] /\ bI = gb[2] + 1
            \/ \E j \in 1..Len(meritBadgeTbl) :
                 meritBadgeTbl[j].node = <<gb[1], gb[2] + 1>>
       /\ \A j \in 1..Len(meritBadgeTbl) :
            meritBadgeTbl[j].node[1] = gb[1] =>
              meritBadgeTbl[j].body.dpmt_id = meritBadgeTbl[k].body.dpmt_id

C9_Witness ==
  /\ mpc = "done"
  /\ \E k \in 1..Len(meritBadgeTbl) :
       LET gb == meritBadgeTbl[k].node IN
         /\ meritBadgeTbl[k].resp \in {"none", "empty", "exc"}
         /\ gb[2] = 1
         /\ Len(groups[gb[1]].badges[1].requirements) > 0
         /\ \E j \in 1..Len(meritBadgeTbl) :
              /\ meritBadgeTbl[j].node = <<gb[1], 2>>
              /\ meritBadgeTbl[j].resp = "row"

\* the writes made to attribute f of the requirement at full path n
WritesTo(n, f) == {k \in 1..Len(writes) : writes[k].node = n /\ writes[k].field = f}

\* C10 as stated: every identifier field of a requirement node is written at
\* most once and only when the node's insert has returned a generated id, so
\* a node whose insert failed or was never made keeps all three at None.
C10_WrittenOnlyOnSuccess ==
  \A gb \in GroupedBadges :
     LET reqs == groups[gb[1]].badges[gb[2]].requirements IN
     \A p \in NodePaths(reqs) :
        NodeAt(reqs, p) # None =>
          LET node == NodeAt(reqs, p) IN
          /\ \A f \in {"rqmt_id", "badge_id", "parent_rqmt_id"} :
               /\ Cardinality(WritesTo(gb \o p, f)) <= 1
               /\ WritesTo(gb \o p, f) # {} => Succeeded(gb \o p)
          /\ ~Succeeded(gb \o p) =>
               /\ node.rqmt_id = None
               /\ node.badge_id = None
               /\ node.parent_rqmt_id = None
          /\ node.rqmt_id # None <=> Succeeded(gb \o p)

\* C10 amended: rqmt_id is written at most once, only with the id the node's
\* insert returned, and is non-None iff that insert succeeded; badge_id is
\* written at most once, when the node's insert is attempted, with the
\* badge's id; parent_rqmt_id is written at most once; a node whose insert
\* failed keeps rqmt_id and parent_rqmt_id None, and a node never attempted
\* keeps all three None.
C10_WrittenOncePerAttempt ==
  \A gb \in GroupedBadges :
     LET reqs == groups[gb[1]].badges[gb[2]].requirements IN
     \A p \in NodePaths(reqs) :
        NodeAt(reqs, p) # None =>
          LET node == NodeAt(reqs, p) IN
          /\ \A f \in {"rqmt_id", "badge_id", "parent_rqmt_id"} :
               Cardinality(WritesTo(gb \o p, f)) <= 1
          /\ WritesTo(gb \o p, "rqmt_id") # {} <=> Succeeded(gb \o p)
          /\ WritesTo(gb \o p, "badge_id") # {} <=> Attempted(gb \o p)
          /\ node.rqmt_id # None <=> Succeeded(gb \o p)
          /\ \A k \in 1..Len(rqmtTbl) :
               (rqmtTbl[k].node = gb \o p /\ rqmtTbl[k].resp = "row")
                 => node.rqmt_id = rqmtTbl[k].id
          /\ node.badge_id # None <=> Attempted(gb \o p)
          /\ Attempted(gb \o p) => node.badge_id = groups[gb[1]].badges[gb[2]].badge_id
          /\ ~Succeeded(gb \o p) => node.rqmt_id = None /\ node.parent_rqmt_id = None

C10_Witness ==
  /\ mpc = "done"
  /\ \E gb \in GroupedBadges :
       LET reqs == groups[gb[1]].badges[gb[2]].requirements IN
         /\ Len(reqs) = 3
         /\ \A i \in 1..3 : reqs[i] # None
         /\ reqs[1].rqmt_id # None
         /\ reqs[2].rqmt_id = None /\ reqs[2].badge_id # None
         /\ reqs[3].rqmt_id # None

(***************************************************************************)
(* Property of the parser.                                                 *)
(***************************************************************************)
\* C5: for every badge record with all five required keys, whatever the
\* values under them, convert_merit_badge_from_json returns an object whose
\* four scalar fields equal the input and whose root requirement count is the
\* length of the input requirements list.
C5_ParseTotalOnFiveKeys ==
  (pResult # NotCalled /\ pResult # None /\ pInput # None
   /\ BadgeKeys \subseteq DOMAIN pInput.v)
  => /\ pResult.t = "MeritBadge"
     /\ pResult.badge_name = pInput.v["badge_name"]
     /\ pResult.badge_desc = pInput.v["badge_desc"]
     /\ pResult.eagle_badge = pInput.v["eagle_badge"]
     /\ pResult.dpmt_name = pInput.v["dpmt_name"]
     /\ Len(pResult.requirements) = Len(pInput.v["requirements"].v)

(***************************************************************************)
(* Properties of the Department Seeder.                                    *)
(***************************************************************************)
\* the entries this run has gone through, and the inserts it has issued
DeptProcessed == SubSeq(departments, 1, dI - 1)

DeptCallsThisRun ==
  LET ThisRun(c) == c.run = dRun IN SelectSeq(campDpmt, ThisRun)

Occurrences(s, x) == Cardinality({k \in 1..Len(s) : s[k] = x})

\* C7 as stated: every entry gone through got exactly one insert, in list
\* order, with body {"dpmt_name": the entry's dpmt_name}.
C7_EveryEntryInserted ==
  /\ Len(DeptCallsThisRun) = dI - 1
  /\ \A k \in 1..dI - 1 :
       /\ k <= Len(DeptCallsThisRun)
       /\ HasKey("dpmt_name", departments[k])
       /\ DeptCallsThisRun[k].body = [dpmt_name |-> departments[k].v["dpmt_name"]]

\* C7 amended: the inserts of a run are, in list order, one per entry that has
\* dpmt_name, with body {"dpmt_name": the entry's dpmt_name}; an entry without
\* dpmt_name gets no insert; stderr has one "API ERROR" line per insert the
\* backend rejected and one "GENERAL ERROR" line per other failure, and the
\* loop ends only past the last entry.
C7_OneInsertPerNamedEntry ==
  LET HasName(e) == HasKey("dpmt_name", e)
      named == SelectSeq(DeptProcessed, HasName)
      calls == DeptCallsThisRun
  IN /\ Len(calls) = Len(named)
     /\ \A k \in 1..Len(calls) :
          calls[k].body = [dpmt_name |-> named[k].v["dpmt_name"]]
     /\ Occurrences(dStderr, "API ERROR")
          = Cardinality({k \in 1..Len(calls) : calls[k].resp = "api"})
     /\ Occurrences(dStderr, "GENERAL ERROR")
          = Cardinality({k \in 1..Len(calls) : calls[k].resp = "exc"})
            + (Len(DeptProcessed) - Len(named))
     /\ Len(dStderr) = Occurrences(dStderr, "API ERROR")
                       + Occurrences(dStderr, "GENERAL ERROR")
     /\ dpc = "loop" => dI <= Len(departments)
     /\ dpc = "done" => dI - 1 = Len(departments)

C7_Witness ==
  /\ dpc = "done"
  /\ Len(departments) = 2
  /\ HasKey("dpmt_name", departments[1])
  /\ ~HasKey("dpmt_name", departments[2])
  /\ dStderr = <<"API ERROR", "GENERAL ERROR">>
  /\ Len(DeptCallsThisRun) = 1
  /\ DeptCallsThisRun[1].resp = "api"

\* the rows the backend holds for department name n
CampDpmtRows(n) ==
  {k \in 1..Len(campDpmt) :
     campDpmt[k].resp = "row" /\ campDpmt[k].body = [dpmt_name |-> JStr(n)]}

\* C8: with a backend that accepts every insert, r runs on the same input
\* issue r inserts and leave r rows per department entry: two after two runs.
C8_NotIdempotent ==
  (dpc = "done" /\ \A k \in 1..Len(campDpmt) : campDpmt[k].resp = "row")
  => /\ \A n \in DeptNames :
          Cardinality(CampDpmtRows(n))
            = dRun * Occurrences(departments, JDict([f \in {"dpmt_name"} |-> JStr(n)]))
     /\ Len(campDpmt)
          = dRun * Cardinality({i \in 1..Len(departments) :
                                  HasKey("dpmt_name", departments[i])})

C8_Witness ==
  /\ dpc = "done"
  /\ dRun = 2
  /\ Len(departments) = 2
  /\ \A k \in 1..Len(campDpmt) : campDpmt[k].resp = "row"
  /\ Cardinality(CampDpmtRows("Camping")) = 2
  /\ Cardinality(CampDpmtRows("Aquatics")) = 2
====
